---- MODULE Spec2Model ----
(***************************************************************************)
(* Scattered Data Approximation (niftymic/reconstruction/                  *)
(* scattered_data_approximation.py) and the outlier rejection working on   *)
(* the same stacks (niftymic/utilities/outlier_rejector.py).               *)
(*                                                                         *)
(* The target grid is a 2 x 2 x 2 array.  A slice is modelled at one pixel: *)
(* it carries an intensity, a mask value and a pose, the voxel its pixel   *)
(* lands on under nearest-neighbour resampling (or Outside the grid).      *)
(* Arrays are functions over Voxels.  Smoothed arrays are kept in fixed    *)
(* point, Scale units to 1.0, and a ratio is a reduced fraction <<n, d>>.   *)
(***************************************************************************)
EXTENDS Integers, Sequences, FiniteSets, TLC

\* ---------------------------------------------------------------- bounds
MaxVal == 1
MaxSigma == 1
MaxPasses == 2

\* ------------------------------------------------------- program constants
default_sigma == 1
default_pixel_value == 0
YvvDefaultSigma == 1
Uint8 == 256

\* ------------------------------------------------------------------ grid
Axis == 1..3
Shape == <<2, 2, 2>>
Voxels == {<<a, b, c>> : a \in 0..(Shape[1] - 1), b \in 0..(Shape[2] - 1), c \in 0..(Shape[3] - 1)}
Outside == <<-1, -1, -1>>
VoxA == <<0, 0, 0>>
VoxB == <<1, 1, 1>>

Zeros == [x \in Voxels |-> 0]

None == "None"

\* an optional value: the empty set for Python's None, else the singleton of the value
Nothing == {}
Some(v) == {v}
Get(o) == CHOOSE v \in o : TRUE

\* ------------------------------------------------------------ arithmetic
RECURSIVE GCD(_, _)
GCD(a, b) == IF b = 0 THEN a ELSE GCD(b, a % b)

Abs(a) == IF a < 0 THEN -a ELSE a

\* n / d as a reduced fraction with a positive denominator (d # 0)
Ratio(n, d) ==
    LET g == GCD(Abs(n), Abs(d))
        s == IF d < 0 THEN -1 ELSE 1
    IN  <<(s * n) \div g, (s * d) \div g>>

RECURSIVE Pow(_, _)
Pow(b, e) == IF e = 0 THEN 1 ELSE b * Pow(b, e - 1)

RECURSIVE Binom(_, _)
Binom(n, k) == IF k = 0 \/ k = n THEN 1 ELSE Binom(n - 1, k - 1) + Binom(n - 1, k)

RECURSIVE SumRange(_, _, _)
SumRange(f, lo, hi) == IF lo > hi THEN 0 ELSE f[lo] + SumRange(f, lo + 1, hi)

\* ------------------------------------------------- recursive Gaussian filter
\* One axis of the filter is a binomial kernel of radius sigma, the samples
\* beyond the border repeating the border voxel; sigma = 0 is the identity.
\* Every axis scales by AxisScale, so a smoothed array is in units of Scale.
AxisScale == Pow(4, MaxSigma)
Scale == AxisScale * AxisScale * AxisScale

Weight(s, d) == Binom(2 * s, s + d) * Pow(4, MaxSigma - s)

Clamp(v, lo, hi) == IF v < lo THEN lo ELSE IF v > hi THEN hi ELSE v

Shift(x, ax, d) == [x EXCEPT ![ax] = Clamp(x[ax] + d, 0, Shape[ax] - 1)]

SmoothAxis(a, ax, s) ==
    [x \in Voxels |->
        SumRange([d \in (-s)..s |-> Weight(s, d) * a[Shift(x, ax, d)]], -s, s)]

SmoothSeparable(a, sig) ==
    SmoothAxis(SmoothAxis(SmoothAxis(a, 1, sig[1]), 2, sig[2]), 3, sig[3])

\* itk.SmoothingRecursiveYvvGaussianImageFilter with SetSigmaArray(sig)
YvvGaussian(a, sig) == SmoothSeparable(a, sig)

\* sitk.SmoothingRecursiveGaussianImageFilter with SetSigma(s): isotropic
DericheGaussian(a, s) == SmoothSeparable(a, <<s, s, s>>)

\* binary_mask_from_mask_srr_estimator.BinaryMaskFromMaskSRREstimator:
\* a binary volume from the float SDA outcome (threshold at one half)
MaskEstimator(nda) == [x \in Voxels |-> IF 2 * nda[x][1] >= nda[x][2] THEN 1 ELSE 0]

\* ----------------------------------------------------------------- state
VARIABLES
    iadd_in_place,      \* the build: sitk.Image.__iadd__ writes its operand (SimpleITK >= 2.0) or returns a new image
    stackObj,           \* the Stack objects: live slices and deleted slice numbers
    lists,              \* the Python list objects holding stacks
    pc,                 \* "new": not constructed | "idle": between calls | "loop", "smooth": inside a pass
    raised,             \* exception raised by the last call, or None
    stacks, N_stacks, HR_volume, use_masks, sda_mask,
    sigma_array, sda_approach,
    HR_volume_uncertainty, HR_volume_uncertainty_normalized,
    pass,               \* the pass in progress: "Shepard-YVV" | "Shepard-Deriche" | "uncertainties"
    i, j,               \* loop indices of the pass
    helper_N_nda, helper_D_nda,
    passes,             \* number of accumulation passes started
    expect_N, expect_D, \* per voxel: sum of the raw source values, and number, of the slices of this pass covering it
    count_D,            \* helper_D_nda as the loop left it
    entry,              \* the Stack objects as they were when the pass started
    lastRun             \* configuration and outcome of the last completed run()

vars == <<iadd_in_place, stackObj, lists, pc, raised, stacks, N_stacks,
          HR_volume, use_masks, sda_mask, sigma_array, sda_approach,
          HR_volume_uncertainty, HR_volume_uncertainty_normalized,
          pass, i, j, helper_N_nda, helper_D_nda, passes,
          expect_N, expect_D, count_D, entry, lastRun>>

env == <<iadd_in_place, lists>>
config == <<stacks, N_stacks, use_masks, sda_mask, sigma_array, sda_approach>>
cache == <<HR_volume_uncertainty, HR_volume_uncertainty_normalized>>
locals == <<pass, i, j, helper_N_nda, helper_D_nda, expect_N, expect_D, count_D, entry>>

\* ---------------------------------------------------------------- inputs
Vals == 0..MaxVal
Bits == {0, 1}
Sigmas == 0..MaxSigma
StackIds == {1, 2}
ListIds == {"L0", "L2"}
Approaches == {"Shepard-YVV", "Shepard-Deriche"}
ApproachInputs == Approaches \cup {"Shepard"}
SigmaArrayInputs == {<<MaxSigma, 0, 0>>, <<1, 1>>, <<0, 0, 0, 0>>}
Thresholds == {0, 1}
SimRows == {<<Some(1), Nothing>>, <<Some(0), Some(1)>>, <<Some(0), Nothing>>}
SimTables == [StackIds -> SimRows]

\* the target volume handed to the constructor: zero intensities, a mask leaving VoxB out
InitialHR == [sitk |-> [x \in Voxels |-> <<0, 1>>],
              sitk_mask |-> [x \in Voxels |-> IF x = VoxB THEN 0 ELSE 1]]

Slice(n, v, m, p) == [slice_number |-> n, sitk |-> v, sitk_mask |-> m, pos |-> p]

Init ==
    /\ iadd_in_place \in BOOLEAN
    /\ \E v1 \in Vals, m1 \in Bits :
          stackObj = [s \in StackIds |->
              IF s = 1
              THEN [slices |-> <<Slice(0, v1, m1, VoxA), Slice(1, MaxVal, 1, VoxA)>>, deleted |-> <<>>]
              ELSE [slices |-> <<Slice(0, MaxVal, 1, VoxB), Slice(1, MaxVal, 1, Outside)>>,
                    deleted |-> <<>>]]
    /\ lists = [l \in ListIds |-> IF l = "L0" THEN <<>> ELSE <<1, 2>>]
    /\ pc = "new"
    /\ raised = None
    /\ stacks = None /\ N_stacks = 0
    /\ HR_volume = InitialHR
    /\ use_masks = FALSE /\ sda_mask = FALSE
    /\ sigma_array = <<>> /\ sda_approach = None
    /\ HR_volume_uncertainty = Nothing /\ HR_volume_uncertainty_normalized = Nothing
    /\ pass = None /\ i = 0 /\ j = 0
    /\ helper_N_nda = Zeros /\ helper_D_nda = Zeros
    /\ passes = 0
    /\ expect_N = Zeros /\ expect_D = Zeros /\ count_D = Zeros
    /\ entry = Nothing
    /\ lastRun = Nothing

\* ------------------------------------------------------------ operations
\* only the arrays that are too short are rejected
SigmaArrayRejected_Short(sa) == Len(sa) < 3

\* len(sigma_array) is not 3
SigmaArrayRejected(sa) == Len(sa) # 3

\* sda_approach not in ["Shepard-YVV", "Shepard-Deriche"]
ApproachRejected(a) == a \notin {"Shepard-YVV", "Shepard-Deriche"}

\* the cache is never consulted
NothingCached_Always(u, n) == TRUE

\* both cached volumes are None
NothingCached(u, n) == u = Nothing /\ n = Nothing

\* __init__(stacks, HR_volume, sigma, sigma_array, use_masks, sda_mask)
Construct(st, sigma, sa, um, sm) ==
    /\ pc = "new"
    /\ IF sa # Nothing /\ SigmaArrayRejected(Get(sa))
       THEN /\ raised' = "ValueError"
            /\ UNCHANGED <<pc, config>>
       ELSE /\ raised' = None
            /\ pc' = "idle"
            /\ stacks' = st
            /\ N_stacks' = Len(lists[st])
            /\ use_masks' = um
            /\ sda_mask' = sm
            /\ sigma_array' = IF sa = Nothing THEN <<sigma, sigma, sigma>> ELSE Get(sa)
            /\ sda_approach' = "Shepard-YVV"
    /\ UNCHANGED <<env, stackObj, HR_volume, cache, locals, passes, lastRun>>

set_sigma(sigma) ==
    /\ pc = "idle"
    /\ raised' = None
    /\ sigma_array' = <<sigma, sigma, sigma>>
    /\ UNCHANGED <<env, stackObj, pc, stacks, N_stacks, use_masks, sda_mask, sda_approach,
                   HR_volume, cache, locals, passes, lastRun>>

set_stacks(st) ==
    /\ pc = "idle"
    /\ raised' = None
    /\ stacks' = st
    /\ N_stacks' = Len(lists[st])
    /\ UNCHANGED <<env, stackObj, pc, use_masks, sda_mask, sigma_array, sda_approach,
                   HR_volume, cache, locals, passes, lastRun>>

set_sigma_array(sa) ==
    /\ pc = "idle"
    /\ IF SigmaArrayRejected(sa)
       THEN /\ raised' = "ValueError"
            /\ UNCHANGED sigma_array
       ELSE /\ raised' = None
            /\ sigma_array' = sa
    /\ UNCHANGED <<env, stackObj, pc, stacks, N_stacks, use_masks, sda_mask, sda_approach,
                   HR_volume, cache, locals, passes, lastRun>>

set_approach(a) ==
    /\ pc = "idle"
    /\ IF ApproachRejected(a)
       THEN /\ raised' = "ValueError"
            /\ UNCHANGED sda_approach
       ELSE /\ raised' = None
            /\ sda_approach' = a
    /\ UNCHANGED <<env, stackObj, pc, stacks, N_stacks, use_masks, sda_mask, sigma_array,
                   HR_volume, cache, locals, passes, lastRun>>

\* ------------------------------------------------------- source selection
\* What _get_slice hands back: the value of the image, and whether the image
\* is the slice's own sitk / sitk_mask attribute or a new image.
get_image_slice(slice) == [value |-> slice.sitk, alias |-> "sitk"]

\* the mask handed back in place of the product
get_masked_image_slice_MaskOnly(slice) == [value |-> slice.sitk_mask, alias |-> "new"]

get_masked_image_slice(slice) == [value |-> slice.sitk * slice.sitk_mask, alias |-> "new"]

get_mask_slice(slice) == [value |-> slice.sitk_mask, alias |-> "sitk_mask"]

get_slice(um, sm, slice) ==
    IF sm THEN get_mask_slice(slice)
    ELSE IF um THEN get_masked_image_slice(slice)
    ELSE get_image_slice(slice)

\* sitk.Resample(slice_sitk, HR_volume.sitk, Euler3DTransform(), sitkNearestNeighbor, default_pixel_value)
Resample(value, pos) == [x \in Voxels |-> IF x = pos THEN value ELSE default_pixel_value]

\* slice_sitk += 1 on the image get_slice returned: the slice after the statement
IAddOne(slice, alias) ==
    IF ~iadd_in_place \/ alias = "new" THEN slice
    ELSE IF alias = "sitk" THEN [slice EXCEPT !.sitk = @ + 1]
    ELSE [slice EXCEPT !.sitk_mask = @ + 1]

\* the pass applies the +1 intensity offset (YVV and uncertainties; not Deriche)
HasOffset(p) == p # "Shepard-Deriche"

\* what one slice adds to the accumulation pair in pass p: the offset (if the
\* pass has one), the resampling, the test nda_slice > 0 and the two updates
Contribution(p, um, sm, slice) ==
    LET src == get_slice(um, sm, slice)
        off == IF HasOffset(p) THEN 1 ELSE 0
        nda_slice == Resample(src.value + off, slice.pos)
        ind_nonzero == {x \in Voxels : nda_slice[x] > 0}
    IN  [N |-> [x \in Voxels |-> IF x \in ind_nonzero THEN nda_slice[x] - off ELSE 0],
         D |-> [x \in Voxels |-> IF x \in ind_nonzero THEN 1 ELSE 0]]

\* assignment in place of +=
Plus_Assign(a, b) == b

Plus(a, b) == [x \in Voxels |-> a[x] + b[x]]

\* the zero entries left as they are
ZeroGuard_Skipped(d) == d

\* helper_D_nda[helper_D_nda == 0] = 1
ZeroGuard(d) == [x \in Voxels |-> IF d[x] = 0 THEN 1 ELSE d[x]]

\* np.around(a / Scale, decimals=0) for a >= 0: round half to even
Around(a) ==
    LET q == a \div Scale
        r == a % Scale
    IN  IF 2 * r < Scale THEN q
        ELSE IF 2 * r > Scale THEN q + 1
        ELSE IF q % 2 = 0 THEN q ELSE q + 1

\* np.clip on fixed-point values
Clip(a, lo, hi) == IF a < lo THEN lo ELSE IF a > hi THEN hi ELSE a

\* float array .astype(np.uint8): truncate, keep the low 8 bits
AsUint8(a) == (a \div Scale) % Uint8

\* ------------------------------------------------------------ the passes
TheStack == stackObj[lists[stacks][i + 1]]

\* the arrays and indices of a pass are locals: they exist from its start to its return
NoLocals ==
    /\ pass' = None
    /\ i' = 0 /\ j' = 0
    /\ helper_N_nda' = Zeros /\ helper_D_nda' = Zeros
    /\ expect_N' = Zeros /\ expect_D' = Zeros /\ count_D' = Zeros
    /\ entry' = Nothing

BeginPass(p) ==
    /\ passes < MaxPasses
    /\ passes' = passes + 1
    /\ pc' = "loop"
    /\ pass' = p
    /\ i' = 0 /\ j' = 0
    /\ helper_N_nda' = Zeros
    /\ helper_D_nda' = Zeros
    /\ expect_N' = Zeros /\ expect_D' = Zeros
    /\ entry' = Some(stackObj)
    /\ UNCHANGED <<env, stackObj, config, HR_volume, cache, count_D, lastRun>>

\* run(): dispatch on the approach
run ==
    /\ pc = "idle"
    /\ raised' = None
    /\ BeginPass(sda_approach)

\* get_uncertainties(): compute when nothing is cached, else hand back the cache
get_uncertainties ==
    /\ pc = "idle"
    /\ raised' = None
    /\ IF NothingCached(HR_volume_uncertainty, HR_volume_uncertainty_normalized)
       THEN BeginPass("uncertainties")
       ELSE UNCHANGED <<env, stackObj, pc, config, HR_volume, cache, locals, passes, lastRun>>

\* one iteration of the inner loop: slice j of stack i
AccumulateSlice ==
    /\ pc = "loop"
    /\ i < N_stacks
    /\ i < Len(lists[stacks])
    /\ j < Len(TheStack.slices)
    /\ LET sid == lists[stacks][i + 1]
           slice == TheStack.slices[j + 1]
           src == get_slice(use_masks, sda_mask, slice)
           c == Contribution(pass, use_masks, sda_mask, slice)
       IN  /\ helper_N_nda' = IF pass = "uncertainties" THEN helper_N_nda ELSE Plus(helper_N_nda, c.N)
           /\ helper_D_nda' = Plus(helper_D_nda, c.D)
           /\ stackObj' =
                 IF HasOffset(pass)
                 THEN [stackObj EXCEPT ![sid].slices[j + 1] = IAddOne(slice, src.alias)]
                 ELSE stackObj
           /\ expect_N' = [x \in Voxels |-> IF x = slice.pos THEN expect_N[x] + src.value ELSE expect_N[x]]
           /\ expect_D' = [x \in Voxels |-> IF x = slice.pos THEN expect_D[x] + 1 ELSE expect_D[x]]
    /\ j' = j + 1
    /\ UNCHANGED <<env, pc, raised, config, HR_volume, cache, pass, i, passes, count_D, entry, lastRun>>

\* the inner loop of stack i is done: next stack
NextStack ==
    /\ pc = "loop"
    /\ i < N_stacks
    /\ i < Len(lists[stacks])
    /\ j = Len(TheStack.slices)
    /\ i' = i + 1
    /\ j' = 0
    /\ UNCHANGED <<env, stackObj, pc, raised, config, HR_volume, cache, pass,
                   helper_N_nda, helper_D_nda, passes, expect_N, expect_D, count_D, entry, lastRun>>

\* stack = self._stacks[i] with i past the end of the list: the IndexError ends the call
StackIndexError ==
    /\ pc = "loop"
    /\ i < N_stacks
    /\ i >= Len(lists[stacks])
    /\ raised' = "IndexError"
    /\ pc' = "idle"
    /\ NoLocals
    /\ UNCHANGED <<env, stackObj, config, HR_volume, cache, passes, lastRun>>

\* the outer loop is done: set the zero entries of the denominator to one
LoopExit ==
    /\ pc = "loop"
    /\ i = N_stacks
    /\ count_D' = helper_D_nda
    /\ helper_D_nda' = ZeroGuard(helper_D_nda)
    /\ pc' = "smooth"
    /\ UNCHANGED <<env, stackObj, raised, config, HR_volume, cache, pass, i, j,
                   helper_N_nda, passes, expect_N, expect_D, entry, lastRun>>

\* elementwise nda_N / nda_D
Divide(N, D) == [x \in Voxels |-> Ratio(N[x], D[x])]

\* the volume the YVV variant computes from the accumulation pair
ShepardYVV(N, D, sig) == Divide(YvvGaussian(N, sig), YvvGaussian(D, sig))

\* the volume the Deriche variant computes from the accumulation pair
ShepardDeriche(N, D, sig) == Divide(DericheGaussian(N, sig[2]), DericheGaussian(D, sig[2]))

\* the intensity field written whatever sda_mask says
UpdateHR_IntensityOnly(vol, update, sm) == [vol EXCEPT !.sitk = update]

\* if not self._sda_mask: HR_volume.sitk = update; else: HR_volume.sitk_mask = estimated mask
UpdateHR(vol, update, sm) ==
    IF ~sm THEN [vol EXCEPT !.sitk = update]
    ELSE [vol EXCEPT !.sitk_mask = MaskEstimator(update)]

\* what a completed run() leaves for later comparison: its configuration, its
\* accumulation pair, the float volume nda = N / D it computed and the raw
\* contributions
RunRecord(nda) ==
    [stacks |-> stacks, N_stacks |-> N_stacks, use_masks |-> use_masks, sda_mask |-> sda_mask,
     sigma_array |-> sigma_array, sda_approach |-> sda_approach,
     N |-> helper_N_nda, D |-> helper_D_nda, nda |-> nda,
     expect_N |-> expect_N, expect_D |-> expect_D]

\* smoothing, division and the update of HR_volume, YVV variant
FinishYVV ==
    /\ pc = "smooth" /\ pass = "Shepard-YVV"
    /\ LET nda == ShepardYVV(helper_N_nda, helper_D_nda, sigma_array)
       IN  /\ HR_volume' = UpdateHR(HR_volume, nda, sda_mask)
           /\ lastRun' = Some(RunRecord(nda))
    /\ pc' = "idle"
    /\ NoLocals
    /\ UNCHANGED <<env, stackObj, raised, config, cache, passes>>

\* smoothing, division and the update of HR_volume, Deriche variant
FinishDeriche ==
    /\ pc = "smooth" /\ pass = "Shepard-Deriche"
    /\ LET HR_volume_update == ShepardDeriche(helper_N_nda, helper_D_nda, sigma_array)
       IN  /\ HR_volume' = UpdateHR(HR_volume, HR_volume_update, sda_mask)
           /\ lastRun' = Some(RunRecord(HR_volume_update))
    /\ pc' = "idle"
    /\ NoLocals
    /\ UNCHANGED <<env, stackObj, raised, config, cache, passes>>

\* the smoothed denominator of _compute_uncertainties: YVV filter, sigma never set
UncertaintyDenominator(D) ==
    YvvGaussian(D, <<YvvDefaultSigma, YvvDefaultSigma, YvvDefaultSigma>>)

\* the two volumes _compute_uncertainties stores
Uncertainty(D, mask) == [x \in Voxels |-> Around(D[x]) * mask[x]]

\* the + 1 left out
NormalizedUncertainty_NoOffset(D, mask, n) ==
    [x \in Voxels |-> AsUint8((n * Scale - Clip(D[x], 0, n * Scale)) * mask[x])]

NormalizedUncertainty(D, mask, n) ==
    [x \in Voxels |-> AsUint8((n * Scale - Clip(D[x], 0, n * Scale) + Scale) * mask[x])]

FinishUncertainties ==
    /\ pc = "smooth" /\ pass = "uncertainties"
    /\ LET nda_D == UncertaintyDenominator(helper_D_nda)
           mask == HR_volume.sitk_mask
       IN  /\ HR_volume_uncertainty' = Some(Uncertainty(nda_D, mask))
           /\ HR_volume_uncertainty_normalized' = Some(NormalizedUncertainty(nda_D, mask, N_stacks))
    /\ pc' = "idle"
    /\ NoLocals
    /\ UNCHANGED <<env, stackObj, raised, config, HR_volume, passes, lastRun>>

\* ------------------------------------------------------------------ Stack
\* niftymic.base.stack.Stack: the live slices in slice order, and the sorted
\* numbers of the deleted ones
get_slices(stack) == stack.slices

get_number_of_slices(stack) == Len(stack.slices)

get_deleted_slice_numbers(stack) == stack.deleted

SortedInsert(seq, n) ==
    SelectSeq(seq, LAMBDA k : k < n) \o <<n>> \o SelectSeq(seq, LAMBDA k : k > n)

delete_slice(stack, slice) ==
    [slices |-> SelectSeq(stack.slices, LAMBDA s : s.slice_number # slice.slice_number),
     deleted |-> SortedInsert(stack.deleted, slice.slice_number)]

\* -------------------------------------------------------- OutlierRejector
\* A similarity value is a number or NaN; slice_sim[stack] holds one value per
\* slice number of the stack, as the residual evaluator hands them out.
NaN == Nothing

\* NaN taken for a perfect similarity
nan_to_num_One(v) == IF v = NaN THEN 1 ELSE Get(v)

\* np.nan_to_num
nan_to_num(v) == IF v = NaN THEN 0 ELSE Get(v)

\* np.where(nda_sim < threshold)[0]
BelowThreshold(nda_sim, threshold) == {k \in 0..(Len(nda_sim) - 1) : nda_sim[k + 1] < threshold}

\* rejections: the slice numbers of the live slices found among the indices
Rejections(stack, sim, threshold) ==
    LET nda_sim == [k \in 1..Len(sim) |-> nan_to_num(sim[k])]
        indices == BelowThreshold(nda_sim, threshold)
    IN  {n \in {get_slices(stack)[k].slice_number : k \in 1..get_number_of_slices(stack)} :
            n \in indices}

\* for slice in slices: if slice.get_slice_number() in rejections: stack.delete_slice(slice)
RECURSIVE DeleteRejected(_, _, _, _)
DeleteRejected(stack, slices, k, rejections) ==
    IF k > Len(slices) THEN stack
    ELSE DeleteRejected(IF slices[k].slice_number \in rejections
                        THEN delete_slice(stack, slices[k]) ELSE stack,
                        slices, k + 1, rejections)

\* the body of the loop over the stacks, for one stack
RejectSlices(stack, sim, threshold) ==
    DeleteRejected(stack, get_slices(stack), 1, Rejections(stack, sim, threshold))

\* list.remove(x): the first occurrence leaves the list
RECURSIVE Remove(_, _)
Remove(list, x) ==
    IF list = <<>> THEN <<>>
    ELSE IF Head(list) = x THEN Tail(list)
    ELSE <<Head(list)>> \o Remove(Tail(list), x)

\* the list left as it is
RemoveStacks_Skipped(list, remove_stacks) == list

\* for stack in remove_stacks: self._stacks.remove(stack)
RECURSIVE RemoveStacks(_, _)
RemoveStacks(list, remove_stacks) ==
    IF remove_stacks = <<>> THEN list
    ELSE RemoveStacks(Remove(list, Head(remove_stacks)), Tail(remove_stacks))

InList(list, s) == \E k \in 1..Len(list) : list[k] = s

\* OutlierRejector(stacks = list l, threshold, ...).run(), slice_sim being the
\* similarities the residual evaluator computed
OutlierRejector_run(l, slice_sim, threshold) ==
    /\ pc \in {"new", "idle"}
    /\ LET objs == [s \in StackIds |->
                      IF InList(lists[l], s)
                      THEN RejectSlices(stackObj[s], slice_sim[s], threshold)
                      ELSE stackObj[s]]
           remove_stacks == SelectSeq(lists[l], LAMBDA s : get_number_of_slices(objs[s]) = 0)
       IN  /\ stackObj' = objs
           /\ lists' = [lists EXCEPT ![l] = RemoveStacks(@, remove_stacks)]
    /\ UNCHANGED <<iadd_in_place, pc, raised, config, HR_volume, cache, locals, passes, lastRun>>

\* ---------------------------------------------------------- specification
Next ==
    \/ \E st \in ListIds, um \in BOOLEAN, sm \in BOOLEAN :
          \/ \E sigma \in Sigmas : Construct(st, sigma, Nothing, um, sm)
          \/ \E sa \in SigmaArrayInputs : Construct(st, default_sigma, Some(sa), um, sm)
    \/ \E sigma \in Sigmas : set_sigma(sigma)
    \/ \E st \in ListIds : set_stacks(st)
    \/ \E sa \in SigmaArrayInputs : set_sigma_array(sa)
    \/ \E a \in ApproachInputs : set_approach(a)
    \/ run
    \/ get_uncertainties
    \/ AccumulateSlice
    \/ NextStack
    \/ LoopExit
    \/ FinishYVV
    \/ FinishDeriche
    \/ FinishUncertainties

Spec == Init /\ [][Next]_vars

\* The reconstruction and the outlier rejection working on one list of stacks,
\* as the reconstruction pipeline alternates them: the object is constructed
\* with the default sigma, and stacks and approach are the settings that change.
NextRejection ==
    \/ \E st \in ListIds, um \in BOOLEAN, sm \in BOOLEAN :
          Construct(st, default_sigma, Nothing, um, sm)
    \/ \E st \in ListIds : set_stacks(st)
    \/ \E a \in Approaches : set_approach(a)
    \/ run
    \/ get_uncertainties
    \/ AccumulateSlice
    \/ NextStack
    \/ StackIndexError
    \/ LoopExit
    \/ FinishYVV
    \/ FinishDeriche
    \/ FinishUncertainties
    \/ \E l \in ListIds, slice_sim \in SimTables, threshold \in Thresholds :
          OutlierRejector_run(l, slice_sim, threshold)

SpecRejection == Init /\ [][NextRejection]_vars

\* ---------------------------------------------------- a pass as a function
\* The accumulation pair a pass p leaves when it walks the first n stacks of a
\* list of Stack objects, before the zero guard.
RECURSIVE SlicesPair(_, _, _, _, _)
SlicesPair(p, um, sm, slices, k) ==
    IF k = 0 THEN [N |-> Zeros, D |-> Zeros]
    ELSE LET rest == SlicesPair(p, um, sm, slices, k - 1)
             c == Contribution(p, um, sm, slices[k])
         IN  [N |-> Plus(rest.N, c.N), D |-> Plus(rest.D, c.D)]

RECURSIVE PassPair(_, _, _, _, _, _)
PassPair(p, um, sm, objs, stackSeq, n) ==
    IF n = 0 THEN [N |-> Zeros, D |-> Zeros]
    ELSE LET rest == PassPair(p, um, sm, objs, stackSeq, n - 1)
             here == SlicesPair(p, um, sm, objs[stackSeq[n]].slices, Len(objs[stackSeq[n]].slices))
         IN  [N |-> Plus(rest.N, here.N), D |-> Plus(rest.D, here.D)]

\* the smoothed denominator of run() under an approach and a sigma array
RunDenominator(a, sig, D) ==
    IF a = "Shepard-YVV" THEN YvvGaussian(D, sig) ELSE DericheGaussian(D, sig[2])

\* ----------------------------------------------------------------- claims
\* C1: under either approach, every slice processed by run() adds its raw
\* value v >= 0 (v = 0 included) to the numerator and 1 to the denominator at
\* the voxel its footprint covers, and changes neither array elsewhere: while
\* the loop runs the pair equals the sums and counts of the raw contributions.
C1_OffsetAccumulation ==
    (pc = "loop" /\ pass \in Approaches) =>
        /\ helper_N_nda = expect_N
        /\ helper_D_nda = expect_D

\* C2: with sigma = 0 on every axis and intensity mode, the volume run()
\* computes holds sum/k at every voxel struck by k >= 1 slices and 0 (numerator
\* 0, denominator 1) at every voxel struck by none, and it is the target's
\* intensity field.
C2_UnsmoothedRatio ==
    \A r \in lastRun :
        (~r.sda_mask /\ r.sigma_array = <<0, 0, 0>>) =>
            /\ HR_volume.sitk = r.nda
            /\ \A x \in Voxels :
                  IF r.expect_D[x] >= 1
                  THEN /\ r.D[x] = r.expect_D[x]
                       /\ r.N[x] = r.expect_N[x]
                       /\ r.nda[x] = Ratio(r.expect_N[x], r.expect_D[x])
                  ELSE /\ r.D[x] = 1
                       /\ r.N[x] = 0
                       /\ r.nda[x] = <<0, 1>>

\* C3: when the denominator is handed to the smoothing filter, in run() under
\* either approach and in the pass of get_uncertainties(), no voxel of it is
\* zero: a voxel without contribution holds exactly 1, every other voxel its
\* positive count.
C3_NoZeroDenominator ==
    pc = "smooth" =>
        \A x \in Voxels :
            /\ helper_D_nda[x] # 0
            /\ count_D[x] = 0 => helper_D_nda[x] = 1
            /\ count_D[x] # 0 => (count_D[x] > 0 /\ helper_D_nda[x] = count_D[x])

C3_Witness ==
    /\ pc = "smooth"
    /\ pass = "uncertainties"
    /\ \E x \in Voxels : count_D[x] = 0
    /\ \E x \in Voxels : count_D[x] >= 2

\* C4: run() writes exactly one field of the target volume: with sda_mask
\* false the intensity field becomes the ratio volume and the mask field stays
\* as it was; with sda_mask true the mask field becomes the estimator's binary
\* volume and the intensity field stays as it was; under both approaches.
C4_OneFieldWritten ==
    /\ lastRun = Nothing => HR_volume = InitialHR
    /\ \A r \in lastRun :
          IF r.sda_mask
          THEN /\ HR_volume.sitk_mask = MaskEstimator(r.nda)
               /\ HR_volume.sitk = InitialHR.sitk
          ELSE /\ HR_volume.sitk = r.nda
               /\ HR_volume.sitk_mask = InitialHR.sitk_mask

C4_Witness ==
    \E r \in lastRun :
        /\ pc = "idle"
        /\ r.sda_mask
        /\ r.sda_approach = "Shepard-Deriche"
        /\ HR_volume.sitk_mask # InitialHR.sitk_mask

\* C5: accumulation leaves the inputs untouched: no iteration of the loop of
\* run() or get_uncertainties() changes the intensity or the mask of a slice.
C5_SlicesReadOnly == [][pc = "loop" => stackObj' = stackObj]_vars

\* C6: a run() that completes under the configuration of the previous run()
\* (a get_uncertainties() call may lie between them) ends with the same
\* numerator, denominator and volume as the previous one.
SameConfiguration(r) ==
    /\ r.stacks = stacks /\ r.N_stacks = N_stacks
    /\ r.use_masks = use_masks /\ r.sda_mask = sda_mask
    /\ r.sigma_array = sigma_array /\ r.sda_approach = sda_approach

C6_RunRepeatable ==
    [][\A r \in lastRun :
          (pc = "smooth" /\ pass \in Approaches /\ SameConfiguration(r)) =>
              \A q \in lastRun' : q.N = r.N /\ q.D = r.D /\ q.nda = r.nda]_vars

\* C7: a sigma array whose length is not 3 and an approach other than the two
\* known names are rejected with an error, by the constructor and by the
\* setters; a rejected call changes nothing that is stored; no pass ever runs
\* with a sigma array of another length or an unknown approach.
BadSigmaArrays == {sa \in SigmaArrayInputs : Len(sa) # 3}
BadApproaches == ApproachInputs \ {"Shepard-YVV", "Shepard-Deriche"}

C7_ConfigurationValidated ==
    /\ [](pc # "new" => (Len(sigma_array) = 3 /\ sda_approach \in {"Shepard-YVV", "Shepard-Deriche"}))
    /\ [][/\ \A sa \in BadSigmaArrays :
                set_sigma_array(sa) => (raised' = "ValueError" /\ UNCHANGED <<pc, config>>)
          /\ \A a \in BadApproaches :
                set_approach(a) => (raised' = "ValueError" /\ UNCHANGED <<pc, config>>)
          /\ \A sa \in BadSigmaArrays, st \in ListIds, um \in BOOLEAN, sm \in BOOLEAN :
                Construct(st, default_sigma, Some(sa), um, sm) =>
                    (raised' = "ValueError" /\ pc' = "new")
          /\ raised' = "ValueError" => UNCHANGED <<pc, config>>]_vars

C7_Witness ==
    /\ pc = "idle"
    /\ raised = "ValueError"
    /\ sigma_array = <<MaxSigma, 0, 0>>
    /\ sda_approach = "Shepard-Deriche"

\* C8: a run() invalidates the cached uncertainty volumes: when it completes,
\* nothing is cached, so that the next get_uncertainties() computes anew.
C8_RunInvalidatesCache ==
    [][(pc = "smooth" /\ pass \in Approaches) =>
          (HR_volume_uncertainty' = Nothing /\ HR_volume_uncertainty_normalized' = Nothing)]_vars

\* C9: the uncertainty volumes are computed lazily and cached: the cache is
\* written only at the end of the pass of get_uncertainties(), both volumes at
\* once and from an empty cache; that pass starts only from an empty cache; a
\* get_uncertainties() call that finds the volumes leaves them and everything
\* else as it is.
C9_LazyCached ==
    [][/\ cache' # cache =>
             /\ pc = "smooth" /\ pass = "uncertainties"
             /\ HR_volume_uncertainty = Nothing /\ HR_volume_uncertainty_normalized = Nothing
             /\ HR_volume_uncertainty' # Nothing /\ HR_volume_uncertainty_normalized' # Nothing
       /\ (pc = "idle" /\ pc' = "loop" /\ pass' = "uncertainties") =>
             (HR_volume_uncertainty = Nothing /\ HR_volume_uncertainty_normalized = Nothing)
       /\ (get_uncertainties /\ HR_volume_uncertainty # Nothing) =>
             UNCHANGED <<cache, passes, stackObj, pc>>]_vars

C9_Witness ==
    /\ pc = "idle"
    /\ lastRun # Nothing
    /\ HR_volume_uncertainty # Nothing
    /\ HR_volume_uncertainty_normalized # Nothing

\* C10: the denominator _compute_uncertainties accumulates and smooths is the
\* one run() accumulates and smooths under the configured approach and sigma
\* array.
C10_SameDenominator ==
    (pc = "smooth" /\ pass = "uncertainties") =>
        UncertaintyDenominator(helper_D_nda) =
            RunDenominator(sda_approach, sigma_array,
                ZeroGuard(PassPair(sda_approach, use_masks, sda_mask, stackObj,
                                   lists[stacks], N_stacks).D))

\* C11: for every number of stacks, the normalized uncertainty that
\* get_uncertainties() stores lies in [1, stack_count] at every voxel inside the
\* binary mask, is 0 at every voxel outside it, and is not larger at a voxel
\* whose smoothed denominator is larger.
NormalizedInRange(lowest_count) ==
    (pc = "smooth" /\ pass = "uncertainties" /\ N_stacks >= lowest_count) =>
        LET nda_D == UncertaintyDenominator(helper_D_nda)
            mask == HR_volume.sitk_mask
        IN  \A out \in HR_volume_uncertainty_normalized' :
                \A x \in Voxels :
                    /\ mask[x] = 1 => out[x] \in 1..N_stacks
                    /\ mask[x] = 0 => out[x] = 0
                    /\ \A y \in Voxels :
                          (mask[x] = 1 /\ mask[y] = 1 /\ nda_D[x] <= nda_D[y]) => out[y] <= out[x]

C11_NormalizedRange == [][NormalizedInRange(0)]_vars

\* C11 as amended: the same for every number of stacks from 1 on.
C11_NormalizedRangeWithStacks == [][NormalizedInRange(1)]_vars

C11_Witness ==
    /\ pc = "idle"
    /\ N_stacks = 2
    /\ \E out \in HR_volume_uncertainty_normalized :
          /\ \E x \in Voxels : HR_volume.sitk_mask[x] = 1 /\ out[x] = 2
          /\ \E x \in Voxels : HR_volume.sitk_mask[x] = 0 /\ out[x] = 0

\* C12: both variants honour an anisotropic sigma: the volume a run() computes,
\* under Shepard-YVV and under Shepard-Deriche, is the ratio of numerator and
\* denominator each smoothed with sigma_array[0], sigma_array[1] and
\* sigma_array[2] along the first, second and third axis.
C12_AnisotropicSigma ==
    [][(pc = "smooth" /\ pass \in Approaches) =>
          \A q \in lastRun' :
              q.nda = Divide(SmoothSeparable(helper_N_nda, sigma_array),
                             SmoothSeparable(helper_D_nda, sigma_array))]_vars

\* C13: accumulation is order-independent: walking the stacks in any order,
\* and the slices of each stack in any order, gives the numerator and the
\* denominator that the pass has accumulated when its loops end.
PermsOf(seq) == {[k \in 1..Len(seq) |-> seq[f[k]]] : f \in Permutations(1..Len(seq))}

SliceOrders(objs) ==
    {ps \in [StackIds -> UNION {PermsOf(objs[s].slices) : s \in StackIds}] :
        \A s \in StackIds : ps[s] \in PermsOf(objs[s].slices)}

Reordered(objs, ps) == [s \in StackIds |-> [objs[s] EXCEPT !.slices = ps[s]]]

C13_OrderIndependent ==
    pc = "smooth" =>
        \A objs \in entry : \A seq \in PermsOf(lists[stacks]) : \A ps \in SliceOrders(objs) :
            LET pair == PassPair(pass, use_masks, sda_mask, Reordered(objs, ps), seq, Len(seq))
            IN  /\ pair.D = count_D
                /\ pass \in Approaches => pair.N = helper_N_nda

C13_Witness ==
    /\ pc = "smooth"
    /\ pass = "Shepard-YVV"
    /\ Len(lists[stacks]) = 2
    /\ count_D[VoxA] = 2 /\ helper_N_nda[VoxA] = MaxVal
    /\ count_D[VoxB] = 1

\* C14: mask weighting is neutral for an all-ones mask: with use_masks = True
\* and sda_mask = False, a slice whose mask is 1 adds to numerator and
\* denominator what it adds with use_masks = False, under either approach (and
\* to the denominator of the uncertainty pass).
C14_UnitMaskNeutral ==
    [][(pc = "loop" /\ pc' = "loop" /\ j' = j + 1 /\ use_masks /\ ~sda_mask) =>
          LET slice == TheStack.slices[j + 1]
              plain == Contribution(pass, FALSE, FALSE, slice)
          IN  slice.sitk_mask = 1 =>
                  /\ helper_D_nda' = Plus(helper_D_nda, plain.D)
                  /\ pass \in Approaches => helper_N_nda' = Plus(helper_N_nda, plain.N)]_vars

C14_Witness ==
    /\ pc = "loop"
    /\ use_masks /\ ~sda_mask
    /\ pass = "Shepard-Deriche"
    /\ i = 0 /\ j = 2
    /\ stackObj[1].slices[1].sitk_mask = 1 /\ stackObj[1].slices[1].sitk = 0
    /\ stackObj[1].slices[2].sitk_mask = 1
    /\ helper_N_nda[VoxA] = MaxVal

\* C15: after OutlierRejector.run() the list holds no stack without live
\* slices: the stacks left without a live slice have been removed, and the
\* stacks with a live slice remain, in their order.
C15_DeadStacksRemoved ==
    [][(pc \in {"new", "idle"} /\ (stackObj' # stackObj \/ lists' # lists)) =>
          \A l \in ListIds :
              (\E slice_sim \in SimTables, threshold \in Thresholds :
                    OutlierRejector_run(l, slice_sim, threshold)) =>
                  /\ \A k \in 1..Len(lists'[l]) : Len(stackObj'[lists'[l][k]].slices) > 0
                  /\ lists'[l] = SelectSeq(lists[l], LAMBDA s : Len(stackObj'[s].slices) > 0)]_vars

C15_Witness ==
    /\ pc = "idle"
    /\ lists["L2"] = <<1>>
    /\ Len(stackObj[1].slices) = 1 /\ stackObj[1].deleted = <<1>>
    /\ Len(stackObj[2].slices) = 0

\* C16: OutlierRejector.run() deletes exactly the live slices whose similarity
\* is below the threshold: in every stack of the list, the live slices after
\* the run are the live slices before it whose similarity (by slice number,
\* NaN counting as 0) is not below the threshold, in their order; the deleted
\* numbers are the earlier ones and those of the slices deleted now; a stack
\* outside the list is left alone.
SimilarityOf(sim, slice) ==
    IF sim[slice.slice_number + 1] = NaN THEN 0 ELSE Get(sim[slice.slice_number + 1])

NumbersOf(seq) == {seq[k] : k \in 1..Len(seq)}

C16_ExactlyBelowThresholdDeleted ==
    [][(pc \in {"new", "idle"} /\ stackObj' # stackObj) =>
        \A l \in ListIds, slice_sim \in SimTables, threshold \in Thresholds :
          OutlierRejector_run(l, slice_sim, threshold) =>
              \A s \in StackIds :
                  IF InList(lists[l], s)
                  THEN LET kept == SelectSeq(stackObj[s].slices,
                                             LAMBDA sl : SimilarityOf(slice_sim[s], sl) >= threshold)
                       IN  /\ stackObj'[s].slices = kept
                           /\ NumbersOf(stackObj'[s].deleted) =
                                 NumbersOf(stackObj[s].deleted) \cup
                                 {sl.slice_number : sl \in NumbersOf(stackObj[s].slices) \ NumbersOf(kept)}
                  ELSE stackObj'[s] = stackObj[s]]_vars

C16_Witness ==
    /\ pc = "idle"
    /\ stackObj[1].deleted = <<0>> /\ Len(stackObj[1].slices) = 1
    /\ stackObj[1].slices[1].slice_number = 1
    /\ stackObj[2].deleted = <<0, 1>> /\ stackObj[2].slices = <<>>

\* C17: each slice contributes to a voxel at most once per pass: while the
\* loops run, the denominator at a voxel is at most the number of slices
\* processed so far; when they end, it is (before the zero guard) the number of
\* live slices of the stacks of the list that struck the voxel.
RECURSIVE SlicesBefore(_, _)
SlicesBefore(stackSeq, n) ==
    IF n = 0 THEN 0
    ELSE SlicesBefore(stackSeq, n - 1) + get_number_of_slices(stackObj[stackSeq[n]])

RECURSIVE Striking(_, _, _)
Striking(stackSeq, n, x) ==
    IF n = 0 THEN 0
    ELSE Striking(stackSeq, n - 1, x) +
         Cardinality({k \in 1..get_number_of_slices(stackObj[stackSeq[n]]) :
                        get_slices(stackObj[stackSeq[n]])[k].pos = x})

CountedOnce(passNames) ==
    /\ (pc = "loop" /\ pass \in passNames /\ i <= Len(lists[stacks])) =>
          \A x \in Voxels : helper_D_nda[x] <= SlicesBefore(lists[stacks], i) + j
    /\ (pc = "smooth" /\ pass \in passNames) =>
          \A x \in Voxels : count_D[x] = Striking(lists[stacks], Len(lists[stacks]), x)

C17_CountedOnce == CountedOnce(Approaches \cup {"uncertainties"})

\* C18: the stack count held by the object matches its stack list: once
\* constructed, N_stacks is the length of the list, whatever calls of
\* set_stacks, run, get_uncertainties and OutlierRejector.run() on that list
\* came before, so that no pass fails on a stack index.
C18_CountMatchesList ==
    /\ pc # "new" => N_stacks = Len(lists[stacks])
    /\ raised # "IndexError"

====
